---- MODULE Spec2Model ----
(***************************************************************************)
(* The HTTP entry point of the SmartAI backend, in its three iterations:   *)
(*   "serverless"  src/server.js             (serverless-http export)      *)
(*   "listen"      src/unnamed/part_000:1-157   (app.listen, fallback CORS)*)
(*   "previews"    src/unnamed/part_000:159-367 (normalised allow-list,    *)
(*                                              Vercel preview wildcard)   *)
(* The model follows one request through the Express middleware chain      *)
(* (cors, fallback headers, body parsers, root route, connect-before-      *)
(* routes, routers, health, debug, notFound, errorHandler) and the         *)
(* promise-memoised connectDB with the mongoose connection behind it.      *)
(*                                                                         *)
(* Strings that the code inspects (origins, allow-list entries, paths) are *)
(* sequences of tokens, so that trimming, slash stripping, scheme tests,   *)
(* the preview regular expression and mount-path matching are computed.    *)
(***************************************************************************)
EXTENDS Naturals, Sequences, FiniteSets

VARIABLES
    variant,        \* which iteration of server.js this process runs
    env,            \* process.env, read once at start-up
    req,            \* per request slot: the request, its response, its position
    readyState,     \* mongoose.connection.readyState
    connPromise,    \* global._connPromise / global._mongoPromise
    connErr,        \* the rejection reason of connPromise
    allowedOrigins, \* the allow-list built at start-up
    allowVercelPreviews, \* the preview wildcard switch read at start-up
    createIndexes,  \* what ./config/dbIndexes exports under that name
    indexes,        \* progress of createIndexes()
    connectCalls,   \* number of mongoose.connect invocations in this process
    alive           \* the Node process is running

vars == <<variant, env, allowedOrigins, allowVercelPreviews, createIndexes, req, readyState, connPromise, connErr, indexes, connectCalls, alive>>

config == <<variant, env, allowedOrigins, allowVercelPreviews, createIndexes>>

dbVars == <<readyState, connPromise, connErr, indexes, connectCalls>>

(***************************************************************************)
(* Bounds.                                                                 *)
(***************************************************************************)
\* request slots: how many requests can be in flight together
NumReq == 2
\* cap on the connect counter (never reached by the code as written)
MaxConnects == 3

Slots == 1..NumReq

Variants == {"serverless", "listen", "previews"}

(***************************************************************************)
(* Token strings.                                                          *)
(***************************************************************************)
\* undefined / empty string: both are falsy in the code's tests
Unset == <<>>

\* String.prototype.toLowerCase / the i flag, on the tokens that carry case
Lower(tok) ==
    CASE tok = "HTTPS://" -> "https://"
      [] tok = "HTTP://"  -> "http://"
      [] tok = "TRUE"     -> "true"
      [] tok = "True"     -> "true"
      [] tok = ".VERCEL.APP" -> ".vercel.app"
      [] OTHER -> tok

RECURSIVE trimLeft(_)
trimLeft(s) == IF s # <<>> /\ Head(s) = " " THEN trimLeft(Tail(s)) ELSE s

RECURSIVE trimRight(_)
trimRight(s) ==
    IF s # <<>> /\ s[Len(s)] = " " THEN trimRight(SubSeq(s, 1, Len(s) - 1)) ELSE s

\* String.prototype.trim
trim(s) == trimRight(trimLeft(s))

\* .replace(/\/+$/, '')
RECURSIVE stripTrailingSlashes(_)
stripTrailingSlashes(s) ==
    IF s # <<>> /\ s[Len(s)] = "/"
    THEN stripTrailingSlashes(SubSeq(s, 1, Len(s) - 1))
    ELSE s

\* /^https?:\/\//i.test(entry)
hasHttpScheme(s) == s # <<>> /\ Lower(Head(s)) \in {"http://", "https://"}

\* normalizeOriginEntry: null for a falsy entry, else trimmed, without trailing
\* slashes, and with https:// put in front of a bare host
normalizeOriginEntry(entry) ==
    IF entry = Unset THEN Unset
    ELSE LET e == stripTrailingSlashes(trim(entry))
         IN  IF hasHttpScheme(e) THEN e ELSE <<"https://">> \o e

\* /^https:\/\/.+\.vercel\.app$/i.test(origin)
isVercelPreview(origin) ==
    /\ Len(origin) >= 3
    /\ Lower(origin[1]) = "https://"
    /\ Lower(origin[Len(origin)]) = ".vercel.app"

\* String(process.env.ALLOW_VERCEL_PREVIEWS || '').toLowerCase() === 'true';
\* the other iterations have no such switch
previewsEnabled(v, e) ==
    /\ v = "previews"
    /\ Len(e.ALLOW_VERCEL_PREVIEWS) = 1
    /\ Lower(e.ALLOW_VERCEL_PREVIEWS[1]) = "true"

(***************************************************************************)
(* The allow-list.                                                         *)
(***************************************************************************)
Localhost5173 == <<"http://", "localhost:5173">>
Localhost8080 == <<"http://", "localhost:8080">>
Loopback5173  == <<"http://", "127.0.0.1:5173">>
Loopback8080  == <<"http://", "127.0.0.1:8080">>
FrontendHydx  == <<"https://", "frontend-smartai-hydx", ".vercel.app">>
SmartaiTen    == <<"https://", "smartai-ten", ".vercel.app">>

\* the hard-coded entries of each iteration
hardcodedOrigins(v) ==
    CASE v = "serverless" -> {FrontendHydx, Localhost5173, Localhost8080}
      [] v = "listen" ->
            {FrontendHydx, Localhost5173, Localhost8080, Loopback5173, Loopback8080}
      [] v = "previews" ->
            {Localhost5173, Localhost8080, Loopback5173, Loopback8080,
             FrontendHydx, SmartaiTen}

\* the list literal: the hard-coded entries and the environment's
rawAllowlist(v, e) ==
    IF v = "previews"
    THEN hardcodedOrigins(v) \cup {e.CLIENT_URL, e.VERCEL_URL}
    ELSE hardcodedOrigins(v) \cup {e.CLIENT_URL, e.FRONTEND_URL}

\* const allowedOrigins: .filter(Boolean) of the list, normalised and
\* de-duplicated first in the previews iteration
buildAllowedOrigins(v, e) ==
    IF v = "previews"
    THEN {normalizeOriginEntry(x) : x \in rawAllowlist(v, e)} \ {Unset}
    ELSE rawAllowlist(v, e) \ {Unset}

\* an origin callback that admits every origin
corsOriginAllowsAll(origin) == TRUE

\* corsOptions.origin: TRUE for callback(null, true), FALSE for
\* callback(new Error('Not allowed by CORS'))
corsOrigin(origin) ==
    \/ origin = Unset
    \/ origin \in allowedOrigins
    \/ allowVercelPreviews /\ isVercelPreview(origin)

(***************************************************************************)
(* Requests and responses.                                                 *)
(***************************************************************************)
RootPath   == <<>>
HealthPath == <<"api", "health">>
DebugPath  == <<"api", "debug", "test-nodemailer">>

\* app.use(prefix, router), in registration order
Mounts == { <<"api", "auth">>, <<"api", "quiz">>, <<"api", "folders">>,
            <<"api", "bookmarks">>, <<"api", "students">>, <<"api", "student-quiz">> }

Methods == {"GET", "POST", "OPTIONS"}

Paths == Mounts \cup { RootPath, HealthPath, DebugPath,
                       <<"api", "quiz", "42">>, <<"api", "unknown">> }

AppExample  == <<"https://", "app.example">>
Pr7Preview  == <<"https://", "pr-7", ".vercel.app">>
BareVercel  == <<"https://", ".vercel.app">>
EvilExample == <<"https://", "evil.example">>

Origins == {Unset, Localhost5173, AppExample, Pr7Preview, BareVercel, EvilExample}

\* process.env of a deployment that sets everything, and of one that sets
\* only CLIENT_URL
Environments ==
    { [CLIENT_URL |-> <<" ", "https://", "app.example", "/">>,
       FRONTEND_URL |-> <<"https://", "www.example">>,
       VERCEL_URL |-> <<"my-site", ".vercel.app">>,
       ALLOW_VERCEL_PREVIEWS |-> <<"TRUE">>],
      [CLIENT_URL |-> AppExample,
       FRONTEND_URL |-> Unset,
       VERCEL_URL |-> Unset,
       ALLOW_VERCEL_PREVIEWS |-> <<"1">>] }

\* app.use(mount, router): the mount path is a prefix of the request path
isPrefix(m, p) == Len(m) <= Len(p) /\ SubSeq(p, 1, Len(m)) = m

mounted(p) == \E m \in Mounts : isPrefix(m, p)

\* The requests a slot can carry. Slot 1 carries any of them (POST where
\* the routing table of this file tests the method: a router is mounted for
\* every method); the other slots carry the traffic that runs beside it
\* and drives the connection.
Incoming(r) ==
    IF r = 1
    THEN {i \in [method : Methods, path : Paths, origin : Origins] :
            i.method = "POST" => ~mounted(i.path)}
    ELSE [method : {"GET"}, path : {HealthPath}, origin : {Unset}]

NoReq ==
    [pc |-> "idle", method |-> "-", path |-> RootPath, origin |-> Unset,
     acao |-> Unset, acac |-> FALSE, status |-> 0, body |-> "-",
     by |-> "-", err |-> "-", sawRejected |-> FALSE, db |-> "-"]

\* Answered(q): the response has been sent
Answered(q) == q.pc = "responded"

\* errorHandler(err, req, res, next) of ./middleware/errorHandler: answers
\* the request with the error; headers already set on res stay
errorHandler(q, err) ==
    [q EXCEPT !.pc = "responded", !.by = "errorHandler", !.err = err, !.body = "error"]

\* notFound of ./middleware/errorHandler: 404, handed to errorHandler
notFound(q) == errorHandler([q EXCEPT !.status = 404], "Not Found")

(***************************************************************************)
(* cors(corsOptions) and the fallback header middleware.                   *)
(***************************************************************************)
\* a wildcard in place of the reflected origin
reflectOrigin_star(q) == <<"*">>

\* Access-Control-Allow-Origin as the cors package sets it once the origin
\* callback said true: the request's own Origin, nothing without one
reflectOrigin(q) == q.origin

\* cors with preflightContinue: the preflight goes on down the chain
corsEndsPreflight_continue(q) == FALSE

\* cors ends a preflight itself (preflightContinue is not set)
corsEndsPreflight(q) == q.method = "OPTIONS"

\* app.use(cors(corsOptions)): blocked origin -> next(err); otherwise the
\* CORS headers, and for OPTIONS the 204 that ends the request
cors(q) ==
    IF ~corsOrigin(q.origin)
    THEN errorHandler(q, "Not allowed by CORS")
    ELSE LET h == [q EXCEPT !.acao = reflectOrigin(q), !.acac = TRUE]
         IN  IF corsEndsPreflight(h)
             THEN [h EXCEPT !.pc = "responded", !.status = 204, !.by = "cors", !.body = ""]
             ELSE [h EXCEPT !.pc = "fallback"]

\* the "safety fallback" middleware of the serverless and listen iterations
fallbackHeaders(q) ==
    IF q.pc # "fallback" THEN q
    ELSE IF variant = "previews" THEN [q EXCEPT !.pc = "parse"]
    ELSE LET h == IF q.origin # Unset /\ q.origin \in allowedOrigins
                  THEN [q EXCEPT !.acao = q.origin, !.acac = TRUE]
                  ELSE q
         IN  IF h.method = "OPTIONS"
             THEN [h EXCEPT !.pc = "responded", !.status = 204, !.by = "fallback", !.body = ""]
             ELSE [h EXCEPT !.pc = "parse"]

\* A request arrives: origin logger (previews), cors, app.options('*'),
\* fallback headers; it is answered here or goes on to the body parsers
Receive(r) ==
    /\ alive
    /\ req[r].pc = "idle"
    /\ \E i \in Incoming(r) :
         LET q == [NoReq EXCEPT !.pc = "cors", !.method = i.method,
                                !.path = i.path, !.origin = i.origin]
         IN  req' = [req EXCEPT ![r] = fallbackHeaders(cors(q))]
    /\ UNCHANGED <<config, alive, dbVars>>

\* express.json, express.urlencoded, cookieParser (a body that does not
\* parse goes to errorHandler); then, in the previews iteration, the request
\* logger and the root route
Parse(r) ==
    /\ alive
    /\ req[r].pc = "parse"
    /\ \E ok \in BOOLEAN :
         /\ req' = [req EXCEPT ![r] =
                IF ~ok THEN errorHandler(@, "body parse")
                ELSE IF variant = "previews" /\ @.method = "GET" /\ @.path = RootPath
                THEN [@ EXCEPT !.pc = "responded", !.status = 200, !.by = "root",
                               !.body = "api-running"]
                ELSE [@ EXCEPT !.pc = "connect"]]
    /\ UNCHANGED <<config, alive, dbVars>>

(***************************************************************************)
(* connectDB and the connect-before-routes middleware.                     *)
(***************************************************************************)
\* a connectDB that never finds the promise
promiseMemoized_never == FALSE

\* the memo test: global._connPromise / global._mongoPromise is set
promiseMemoized == connPromise # "unset"

\* a middleware that calls next() whatever connectDB did
afterConnectDB_swallow(q, how) ==
    [q EXCEPT !.pc = "routes", !.db = IF how = "rejected" THEN "-" ELSE how]

\* The middleware after its await of connectDB() has finished. how is
\* "readyState" (connectDB returned at once), "promise" (the awaited promise
\* fulfilled) or "rejected" (it rejected). The serverless iteration has no
\* try/catch: the async middleware's promise rejects, which Express 4 (the
\* only major version that accepts app.options('*', ...)) does not observe,
\* so next is never called and the request stays unanswered. The other
\* iterations hand the error to errorHandler.
afterConnectDB(q, how) ==
    IF how # "rejected" THEN [q EXCEPT !.pc = "routes", !.db = how]
    ELSE IF variant = "serverless" THEN [q EXCEPT !.pc = "unanswered", !.err = connErr]
    ELSE errorHandler(q, connErr)

\* connectDB() up to its first await, called by the middleware. sawRejected
\* keeps whether the promise had already rejected when the request got
\* here; db how connectDB returned.
ConnectDB(r) ==
    /\ alive
    /\ req[r].pc = "connect"
    /\ IF readyState = 1
       THEN /\ req' = [req EXCEPT ![r] =
                    afterConnectDB([@ EXCEPT !.sawRejected = (connPromise = "rejected")],
                                   "readyState")]
            /\ UNCHANGED dbVars
       ELSE IF promiseMemoized
       THEN /\ req' = [req EXCEPT ![r].pc = "awaiting",
                                   ![r].sawRejected = (connPromise = "rejected")]
            /\ UNCHANGED dbVars
       ELSE /\ connectCalls < MaxConnects
            /\ connectCalls' = connectCalls + 1
            /\ connPromise' = "pending"
            /\ readyState' = 2
            /\ req' = [req EXCEPT ![r].pc = "awaiting"]
            /\ UNCHANGED <<connErr, indexes>>
    /\ UNCHANGED <<config, alive>>

\* the await of the memoised promise completes
Resume(r) ==
    /\ alive
    /\ req[r].pc = "awaiting"
    /\ connPromise \in {"fulfilled", "rejected"}
    /\ req' = [req EXCEPT ![r] =
            afterConnectDB(@, IF connPromise = "fulfilled" THEN "promise" ELSE "rejected")]
    /\ UNCHANGED <<config, alive, dbVars>>

\* What the runtime does with the unhandled rejection depends on its
\* version: it only warns (the request hangs), or it ends the process, and
\* with it every request in flight.
UnhandledRejectionExit ==
    /\ alive
    /\ \E r \in Slots : req[r].pc = "unanswered"
    /\ alive' = FALSE
    /\ UNCHANGED <<config, req, dbVars>>

(***************************************************************************)
(* The connection behind the promise.                                      *)
(***************************************************************************)
\* mongoose.connect succeeds: the connection is open and the then-callback
\* starts createIndexes(), or has nothing to do and the promise fulfils
ConnectOpens ==
    /\ alive
    /\ readyState = 2
    /\ readyState' = 1
    /\ IF createIndexes = "function"
       THEN indexes' = "creating" /\ UNCHANGED connPromise
       ELSE indexes' = "skipped" /\ connPromise' = "fulfilled"
    /\ UNCHANGED <<config, alive, req, connErr, connectCalls>>

\* mongoose.connect fails: the promise rejects (the .catch of the later
\* iterations logs and rethrows)
ConnectFails ==
    /\ alive
    /\ readyState = 2
    /\ readyState' = 0
    /\ connPromise' = "rejected"
    /\ connErr' = "connect failed"
    /\ UNCHANGED <<config, alive, req, indexes, connectCalls>>

\* createIndexes() resolves
IndexesCreated ==
    /\ alive
    /\ indexes = "creating"
    /\ indexes' = "created"
    /\ connPromise' = "fulfilled"
    /\ UNCHANGED <<config, alive, req, readyState, connErr, connectCalls>>

\* a then-callback without the try/catch
indexFailureSettles_uncaught == "rejected"

\* what a throwing createIndexes() does to the memoised promise: the later
\* iterations catch and log, the serverless one lets it reject the promise
indexFailureSettles == IF variant = "serverless" THEN "rejected" ELSE "fulfilled"

\* createIndexes() throws
IndexesFail ==
    /\ alive
    /\ indexes = "creating"
    /\ indexes' = "failed"
    /\ connPromise' = indexFailureSettles
    /\ connErr' = IF connPromise' = "rejected" THEN "createIndexes failed" ELSE connErr
    /\ UNCHANGED <<config, alive, req, readyState, connectCalls>>

(***************************************************************************)
(* Routes.                                                                 *)
(***************************************************************************)
\* a health route that is never matched
healthMatches_never(q) == FALSE

\* app.get('/api/health', ...)
healthMatches(q) == q.method = "GET" /\ q.path = HealthPath

\* app.get('/api/debug/test-nodemailer', ...), absent from the serverless iteration
debugMatches(q) == variant # "serverless" /\ q.method = "GET" /\ q.path = DebugPath

\* a route module answers the request
routerAnswers(q) == [q EXCEPT !.pc = "responded", !.by = "router", !.body = "route"]

\* The routing table below the connect middleware: the six routers, health,
\* debug, then notFound and errorHandler
Route(r) ==
    /\ alive
    /\ req[r].pc = "routes"
    /\ \/ /\ mounted(req[r].path)
          /\ req' = [req EXCEPT ![r] = routerAnswers(@)]
       \/ /\ mounted(req[r].path)
          \* no route of the router matches: it passes the request on
          /\ req' = [req EXCEPT ![r] = notFound(@)]
       \/ /\ ~mounted(req[r].path)
          /\ req' = [req EXCEPT ![r] =
                IF healthMatches(@)
                THEN [@ EXCEPT !.pc = "responded", !.status = 200, !.by = "health",
                               !.body = "{status:OK}"]
                ELSE IF debugMatches(@)
                THEN [@ EXCEPT !.pc = "responded", !.by = "debug", !.body = "{ok}"]
                ELSE notFound(@)]
    /\ UNCHANGED <<config, alive, dbVars>>

\* the response is out; the slot is free for the next request
Release(r) ==
    /\ alive
    /\ req[r].pc = "responded"
    /\ req' = [req EXCEPT ![r] = NoReq]
    /\ UNCHANGED <<config, alive, dbVars>>

(***************************************************************************)
(* The specification.                                                      *)
(***************************************************************************)
Init ==
    /\ variant \in Variants
    /\ env \in Environments
    /\ allowedOrigins = buildAllowedOrigins(variant, env)
    /\ allowVercelPreviews = previewsEnabled(variant, env)
    /\ createIndexes \in {"function", "undefined"}
    /\ req = [r \in Slots |-> NoReq]
    /\ readyState = 0
    /\ connPromise = "unset"
    /\ connErr = "-"
    /\ indexes = "notStarted"
    /\ connectCalls = 0
    /\ alive = TRUE

Next ==
    \/ \E r \in Slots : Receive(r)
    \/ \E r \in Slots : Parse(r)
    \/ \E r \in Slots : ConnectDB(r)
    \/ \E r \in Slots : Resume(r)
    \/ \E r \in Slots : Route(r)
    \/ \E r \in Slots : Release(r)
    \/ ConnectOpens
    \/ ConnectFails
    \/ IndexesCreated
    \/ IndexesFail
    \/ UnhandledRejectionExit

Spec == Init /\ [][Next]_vars

\* Every started step of the event loop runs to its end, mongoose.connect
\* settles (serverSelectionTimeoutMS) and createIndexes settles. New requests
\* need not arrive.
Progress ==
    /\ \A r \in Slots : WF_vars(Parse(r))
    /\ \A r \in Slots : WF_vars(ConnectDB(r))
    /\ \A r \in Slots : WF_vars(Resume(r))
    /\ \A r \in Slots : WF_vars(Route(r))
    /\ WF_vars(ConnectOpens \/ ConnectFails)
    /\ WF_vars(IndexesCreated \/ IndexesFail)

FairSpec == Spec /\ Progress

TypeOK ==
    /\ variant \in Variants
    /\ env \in Environments
    /\ readyState \in {0, 1, 2}
    /\ connPromise \in {"unset", "pending", "fulfilled", "rejected"}
    /\ createIndexes \in {"function", "undefined"}
    /\ indexes \in {"notStarted", "creating", "created", "failed", "skipped"}
    /\ connectCalls \in 0..MaxConnects
    /\ alive \in BOOLEAN
    /\ \A r \in Slots :
         req[r].pc \in {"idle", "parse", "connect", "awaiting", "routes",
                        "responded", "unanswered"}

(***************************************************************************)
(* Vocabulary of the claims.                                               *)
(***************************************************************************)
Arrived(q) == q.pc # "idle"

\* the handlers registered below the connect-before-routes middleware
GatedHandlers == {"router", "health", "debug"}

\* a handler below the connect middleware is about to run or has answered
HandlerStarted(q) == q.pc = "routes" \/ (Answered(q) /\ q.by \in GatedHandlers)

\* mongoose.connect has completed successfully at some point
Opened == indexes # "notStarted"

\* Origin present, no exact member of the allow-list, not admitted by the
\* preview wildcard
Disallowed(origin) ==
    /\ origin # Unset
    /\ origin \notin allowedOrigins
    /\ ~(allowVercelPreviews /\ isVercelPreview(origin))

IsHealthGet(q) == q.method = "GET" /\ q.path = HealthPath

(***************************************************************************)
(* C1: mongoose.connect is invoked at most once per process: the first     *)
(* request to reach connectDB starts the connect and stores its promise in *)
(* the global slot, the slot is set exactly when a connect has been        *)
(* started, every request waiting in connectDB waits on that one promise,  *)
(* and a request that found readyState 1 went on without a connect.        *)
(***************************************************************************)
C1_ConnectAtMostOnce ==
    /\ connectCalls <= 1
    /\ (connectCalls = 0) <=> (connPromise = "unset")
    /\ \A r \in Slots : req[r].pc = "awaiting" => connectCalls = 1
    /\ \A r \in Slots : req[r].db = "readyState" => connectCalls = 1

\* two first-requests wait together on the one connect that is in flight
C1_Witness ==
    /\ req[1].pc = "awaiting" /\ req[2].pc = "awaiting"
    /\ connPromise = "pending" /\ connectCalls = 1

(***************************************************************************)
(* C2: every request that entered the middleware pipeline is eventually    *)
(* answered (by a route handler, notFound or errorHandler), also when      *)
(* connectDB rejects while it waits in the connect middleware.             *)
(***************************************************************************)
C2_EveryRequestAnswered ==
    \A r \in Slots : (req[r].pc \notin {"idle", "responded"}) ~> (req[r].pc = "responded")

(***************************************************************************)
(* C3: no retry or recovery: once the memoised promise has rejected, no    *)
(* step invokes mongoose.connect again or changes the promise slot, and a  *)
(* request that reaches connectDB after the rejection is, once it leaves   *)
(* the connect middleware, answered by errorHandler with the promise's     *)
(* error; it never gets to a route handler.                                *)
(***************************************************************************)
C3_NoRecoveryAfterRejection ==
    /\ [][ connPromise = "rejected" =>
             /\ connectCalls' = connectCalls
             /\ connPromise' = "rejected"
             /\ connErr' = connErr ]_vars
    /\ [](\A r \in Slots :
             req[r].sawRejected =>
                \/ req[r].pc = "awaiting"
                \/ /\ Answered(req[r])
                   /\ req[r].by = "errorHandler"
                   /\ req[r].err = connErr)

(***************************************************************************)
(* C4: a request, preflight or not, with a disallowed Origin is blocked:   *)
(* the origin callback's error 'Not allowed by CORS' reaches errorHandler, *)
(* the response has no Access-Control-Allow-Origin, and the request never  *)
(* reaches connectDB or a route handler.                                   *)
(***************************************************************************)
C4_DisallowedOriginBlocked ==
    \A r \in Slots :
        (Arrived(req[r]) /\ Disallowed(req[r].origin)) =>
            /\ Answered(req[r])
            /\ req[r].by = "errorHandler"
            /\ req[r].err = "Not allowed by CORS"
            /\ req[r].acao = Unset
            /\ req[r].db = "-"

\* the preview wildcard is on and the origin still does not match it; no
\* connect was started by the blocked request
C4_Witness ==
    /\ allowVercelPreviews
    /\ req[1].origin = BareVercel
    /\ req[1].method = "POST"
    /\ req[1].err = "Not allowed by CORS"
    /\ connectCalls = 0

(***************************************************************************)
(* C5: the response to a request whose Origin is an exact member of the    *)
(* allow-list carries Access-Control-Allow-Origin equal to that Origin     *)
(* and Access-Control-Allow-Credentials: true.                             *)
(***************************************************************************)
C5_AllowedOriginEchoed ==
    \A r \in Slots :
        (Answered(req[r]) /\ req[r].origin # Unset /\ req[r].origin \in allowedOrigins) =>
            /\ req[r].acao = req[r].origin
            /\ req[r].acac = TRUE

\* an origin that is in the list only through normalisation of CLIENT_URL
C5_Witness ==
    /\ variant = "previews"
    /\ env.CLIENT_URL # AppExample
    /\ req[1].origin = AppExample
    /\ Answered(req[1]) /\ req[1].by = "health"
    /\ req[1].acao = AppExample

(***************************************************************************)
(* C6 as stated: a GET /api/health (that passes CORS and the body parsers) *)
(* is answered with {status:"OK"} in every state of the server.            *)
(***************************************************************************)
C6_HealthAlwaysOK ==
    \A r \in Slots :
        (/\ Answered(req[r]) /\ IsHealthGet(req[r])
         /\ ~Disallowed(req[r].origin) /\ req[r].err # "body parse") =>
            req[r].body = "{status:OK}"

(***************************************************************************)
(* C6 amended: a GET /api/health that passes CORS and the body parsers is  *)
(* answered with {status:"OK"} exactly when connectDB returned             *)
(* successfully for it; otherwise (the connect failed) it is not answered  *)
(* by the health handler: errorHandler answers with the connect error.     *)
(***************************************************************************)
C6_HealthOKWhenConnected ==
    \A r \in Slots :
        (/\ Answered(req[r]) /\ IsHealthGet(req[r])
         /\ ~Disallowed(req[r].origin) /\ req[r].err # "body parse") =>
            /\ (req[r].db # "-") <=> (req[r].body = "{status:OK}" /\ req[r].by = "health")
            /\ req[r].db = "-" => (req[r].by = "errorHandler" /\ req[r].err = connErr
                                    /\ connPromise = "rejected")

\* health answers OK for a request that arrived while createIndexes had failed
C6_Witness ==
    /\ IsHealthGet(req[1]) /\ Answered(req[1])
    /\ req[1].body = "{status:OK}"
    /\ req[1].db = "readyState"
    /\ indexes = "failed"

(***************************************************************************)
(* C7: no handler below the connect middleware starts for a request unless *)
(* connectDB returned successfully for it: readyState was 1 when it was    *)
(* checked, or the memoised promise has fulfilled; either way the          *)
(* connection had been opened.                                             *)
(***************************************************************************)
C7_ConnectedBeforeRoutes ==
    \A r \in Slots :
        HandlerStarted(req[r]) =>
            /\ Opened
            /\ \/ req[r].db = "readyState"
               \/ req[r].db = "promise" /\ connPromise = "fulfilled"

\* a router answers a request that had waited for the connect
C7_Witness ==
    /\ req[1].path = <<"api", "student-quiz">>
    /\ Answered(req[1]) /\ req[1].by = "router"
    /\ req[1].db = "promise"

(***************************************************************************)
(* C8: a preflight with no Origin or an admitted Origin is answered 204    *)
(* ahead of the body parsers; it never enters connectDB, a route handler,  *)
(* notFound or errorHandler.                                               *)
(***************************************************************************)
C8_PreflightAnswered204 ==
    \A r \in Slots :
        (Arrived(req[r]) /\ req[r].method = "OPTIONS" /\ ~Disallowed(req[r].origin)) =>
            /\ Answered(req[r])
            /\ req[r].status = 204
            /\ req[r].by \in {"cors", "fallback"}
            /\ req[r].err = "-"
            /\ req[r].db = "-"

\* a preflight was answered and nothing has touched the connection
C8_Witness ==
    /\ req[1].method = "OPTIONS" /\ req[1].origin = Localhost5173
    /\ req[1].status = 204
    /\ req[2].pc = "idle"
    /\ connectCalls = 0 /\ connPromise = "unset"

(***************************************************************************)
(* C9: in the listen and previews iterations a createIndexes failure after *)
(* a successful connect is caught: the memoised promise fulfils, nothing   *)
(* stays unanswered and no request is answered with an error from the      *)
(* connection. In the serverless iteration it rejects the promise.         *)
(***************************************************************************)
C9_IndexFailureCaught ==
    /\ (variant # "serverless" /\ indexes = "failed") =>
          /\ connPromise = "fulfilled"
          /\ connErr = "-"
          /\ \A r \in Slots :
               /\ req[r].pc # "unanswered"
               /\ req[r].db = "-" => req[r].pc \notin {"routes"}
               /\ (Answered(req[r]) /\ req[r].by = "errorHandler") =>
                     req[r].err \in {"Not allowed by CORS", "body parse", "Not Found"}
    /\ (variant = "serverless" /\ indexes = "failed") =>
          /\ connPromise = "rejected"
          /\ connErr = "createIndexes failed"

\* after the failure, a request that had waited on the promise is answered
\* by a router while a later one is already past connectDB
C9_Witness ==
    /\ variant = "listen" /\ indexes = "failed"
    /\ Answered(req[1]) /\ req[1].by = "router" /\ req[1].db = "promise"
    /\ req[2].pc = "routes" /\ req[2].db = "readyState"

(***************************************************************************)
(* C10: no route handler runs while createIndexes is still in progress.    *)
(***************************************************************************)
C10_NoHandlerWhileIndexing ==
    \A r \in Slots : req[r].pc = "routes" => indexes # "creating"

====
